---- MODULE Spec2Model ----
(***************************************************************************)
(* Dashboard page of zipline (src/components/pages/Dashboard.tsx).         *)
(*                                                                         *)
(* Spec        the component on the UI event loop: mount effect, the page  *)
(*             handlers, handleDelete, updateImages and the requests they  *)
(*             have in flight, against a server holding the file list.     *)
(* SpecPaging  the pagination handlers over file lists of every length.    *)
(* SpecFormat  bytesToRead over byte counts.                               *)
(* SpecViews   the Views text over stats snapshots.                        *)
(***************************************************************************)
EXTENDS Integers, Sequences, FiniteSets, TLC

VARIABLES
    mounted,       \* the mount effect (useEffect, []) has run
    images,        \* useState([])    : the file list
    recent,        \* useState([])    : recent media
    page,          \* useState(0)
    stats,         \* useState(null)  : <<>> is null, <<s>> a loaded StatsSummary
    rowsPerPage,   \* useState(10)
    runs,          \* the invocations of updateImages, in call order
    deletes,       \* the invocations of handleDelete, in call order
    net,           \* requests and responses of useFetch in flight
    serverFiles,   \* the server's file list
    bytes,         \* argument of a bytesToRead call
    formatted,     \* <<>> or <<result of bytesToRead(bytes)>>
    viewsText      \* <<>> or <<the rendered Views text>>

vars == <<mounted, images, recent, page, stats, rowsPerPage, runs, deletes, net,
          serverFiles, bytes, formatted, viewsText>>

uiVars     == <<images, recent, page, stats, rowsPerPage>>
asyncVars  == <<mounted, runs, deletes, net, serverFiles>>
renderVars == <<bytes, formatted, viewsText>>

----------------------------------------------------------------------------
(* Bounds *)

MaxDeletes == 2        \* Delete clicks in one execution
MaxPage == 3           \* largest page index a page change asks for in SpecPaging
MaxPageAsync == 1      \* largest page index a page change asks for in Spec
MaxLen == 101          \* longest file list drawn in SpecPaging
MaxDigits == 7         \* base-1024 digits of the byte counts drawn in SpecFormat
MaxCount == 9          \* largest stats.count drawn in SpecViews
MaxViews == 9          \* largest stats.views_count drawn in SpecViews

Min(a, b) == IF a < b THEN a ELSE b
Max(a, b) == IF a > b THEN a ELSE b

----------------------------------------------------------------------------
(* Pagination: lines 94-96, 107-114, 195-197, 220 *)

rowsPerPageOptions == {10, 25, 100}

\* Array.prototype.slice(start, end) as ECMAScript defines it (positions from 0).
Slice(arr, start, end) ==
    LET len   == Len(arr)
        k     == IF start < 0 THEN Max(len + start, 0) ELSE Min(start, len)
        final == IF end < 0 THEN Max(len + end, 0) ELSE Min(end, len)
        count == Max(final - k, 0)
    IN  [i \in 1..count |-> arr[k + i]]

\* slice(page * rowsPerPage, rowsPerPage): the end taken for a length.
VisibleRows_lengthAsEnd(list, p, s) == Slice(list, p * s, s)

\* The rows of the file table.
VisibleRows(list, p, s) == Slice(list, p * s, p * s + s)

\* event.target.value of the rows-per-page select: a number, or its decimal text.
NumberValue(n) == [type |-> "number", n |-> n, digits |-> <<>>]
StringValue(ds) == [type |-> "string", n |-> 0, digits |-> ds]

RECURSIVE ParseDecimal(_)
ParseDecimal(ds) ==
    IF ds = <<>> THEN 0
    ELSE 10 * ParseDecimal(SubSeq(ds, 1, Len(ds) - 1)) + ds[Len(ds)]

\* Unary plus.
ToNumber(v) == IF v.type = "number" THEN v.n ELSE ParseDecimal(v.digits)

\* The decimal digits of n > 0.
RECURSIVE Decimal(_)
Decimal(n) == IF n < 10 THEN <<n>> ELSE Append(Decimal(n \div 10), n % 10)

RowsPerPageEvents ==
    {NumberValue(n) : n \in rowsPerPageOptions}
        \cup {StringValue(Decimal(n)) : n \in rowsPerPageOptions}

handleChangePage(newPage) ==
    /\ page' = newPage
    /\ UNCHANGED <<images, recent, stats, rowsPerPage>>
    /\ UNCHANGED asyncVars
    /\ UNCHANGED renderVars

\* setRowsPerPage without setPage(0).
handleChangeRowsPerPage_keepPage(ev) ==
    /\ rowsPerPage' = ToNumber(ev)
    /\ UNCHANGED <<images, recent, stats, page>>
    /\ UNCHANGED asyncVars
    /\ UNCHANGED renderVars

handleChangeRowsPerPage(ev) ==
    /\ rowsPerPage' = ToNumber(ev)
    /\ page' = 0
    /\ UNCHANGED <<images, recent, stats>>
    /\ UNCHANGED asyncVars
    /\ UNCHANGED renderVars

----------------------------------------------------------------------------
(* The fetch helper and the server behind it *)

FilesPath  == "/api/user/files"
RecentPath == "/api/user/recent?filter=media"
StatsPath  == "/api/stats"

\* The read endpoints in the order updateImages awaits them (lines 99-101).
ReadPaths == <<FilesPath, RecentPath, StatsPath>>

\* useFetch(path, method, body) called by invocation idx of owner ("run": an
\* updateImages, "del": a handleDelete): the request it puts in flight.
useFetch(owner, idx, method, path, id) ==
    [owner |-> owner, idx |-> idx, kind |-> "req", method |-> method, path |-> path,
     id |-> id, files |-> <<>>, stats |-> <<>>, error |-> <<>>]

Response(req, files, st, error) ==
    [req EXCEPT !.kind = "resp", !.files = files, !.stats = st, !.error = error]

Elems(list) == {list[i] : i \in DOMAIN list}

IsMedia(id) == id % 2 = 1
MediaOnly(files) == SelectSeq(files, IsMedia)

ServerStats(files) == [count |-> Len(files), views_count |-> 0]

Without(files, id) == SelectSeq(files, LAMBDA f : f # id)

\* The server answers one request in flight.
ServerHandle(m) ==
    /\ m \in net
    /\ m.kind = "req"
    /\ \/ /\ m.method = "GET" /\ m.path = FilesPath
          /\ net' = (net \ {m}) \cup {Response(m, serverFiles, <<>>, <<>>)}
          /\ UNCHANGED serverFiles
       \/ /\ m.method = "GET" /\ m.path = RecentPath
          /\ net' = (net \ {m}) \cup {Response(m, MediaOnly(serverFiles), <<>>, <<>>)}
          /\ UNCHANGED serverFiles
       \/ /\ m.method = "GET" /\ m.path = StatsPath
          /\ net' = (net \ {m}) \cup {Response(m, <<>>, <<ServerStats(serverFiles)>>, <<>>)}
          /\ UNCHANGED serverFiles
       \/ /\ m.method = "DELETE" /\ m.path = FilesPath
          /\ m.id \in Elems(serverFiles)
          /\ serverFiles' = Without(serverFiles, m.id)
          /\ net' = (net \ {m}) \cup {Response(m, <<>>, <<>>, <<>>)}
       \/ /\ m.method = "DELETE" /\ m.path = FilesPath
          /\ m.id \notin Elems(serverFiles)
          /\ net' = (net \ {m}) \cup {Response(m, <<>>, <<>>, <<"not found">>)}
          /\ UNCHANGED serverFiles
    /\ UNCHANGED <<mounted, runs, deletes>>
    /\ UNCHANGED uiVars
    /\ UNCHANGED renderVars

----------------------------------------------------------------------------
(* updateImages: lines 98-105 *)

SetImages(v) == [slot |-> "images", files |-> v, stats |-> <<>>]
SetStats(v)  == [slot |-> "stats", files |-> <<>>, stats |-> v]
SetRecent(v) == [slot |-> "recent", files |-> v, stats |-> <<>>]

SlotsOf(sets) == [i \in DOMAIN sets |-> sets[i].slot]

\* The value a slot holds after the setter calls `sets`, made in order.
Assigned(sets, slot, old) ==
    LET hits == {i \in DOMAIN sets : sets[i].slot = slot}
        last == CHOOSE i \in hits : \A j \in hits : j <= i
    IN  IF hits = {} THEN old
        ELSE IF slot = "stats" THEN sets[last].stats ELSE sets[last].files

\* A call of updateImages, up to its first await.
updateImagesCall(idx) ==
    [run  |-> [pc |-> "files", imgs |-> <<>>, recent |-> <<>>, got |-> <<>>,
               writes |-> <<>>],
     send |-> {useFetch("run", idx, "GET", FilesPath, 0)}]

\* setImages(imgs) as soon as the file list has arrived.
updateImagesResume_eager(run, idx, res) ==
    CASE run.pc = "files" ->
            [run  |-> [run EXCEPT !.pc = "recent", !.imgs = res.files],
             send |-> {useFetch("run", idx, "GET", RecentPath, 0)},
             sets |-> <<SetImages(res.files)>>]
      [] run.pc = "recent" ->
            [run  |-> [run EXCEPT !.pc = "stats", !.recent = res.files],
             send |-> {useFetch("run", idx, "GET", StatsPath, 0)},
             sets |-> <<>>]
      [] run.pc = "stats" ->
            [run  |-> [run EXCEPT !.pc = "done", !.imgs = <<>>, !.recent = <<>>],
             send |-> {},
             sets |-> <<SetStats(res.stats), SetRecent(run.recent)>>]

\* updateImages resumed by the response `res` to the request it awaits.
updateImagesResume(run, idx, res) ==
    CASE run.pc = "files" ->
            [run  |-> [run EXCEPT !.pc = "recent", !.imgs = res.files],
             send |-> {useFetch("run", idx, "GET", RecentPath, 0)},
             sets |-> <<>>]
      [] run.pc = "recent" ->
            [run  |-> [run EXCEPT !.pc = "stats", !.recent = res.files],
             send |-> {useFetch("run", idx, "GET", StatsPath, 0)},
             sets |-> <<>>]
      [] run.pc = "stats" ->
            [run  |-> [run EXCEPT !.pc = "done", !.imgs = <<>>, !.recent = <<>>],
             send |-> {},
             sets |-> <<SetImages(run.imgs), SetStats(res.stats), SetRecent(run.recent)>>]

\* A catch that commits what has arrived so far.
updateImagesReject_commit(run, idx) ==
    [run  |-> [run EXCEPT !.pc = "failed", !.imgs = <<>>, !.recent = <<>>],
     send |-> {},
     sets |-> IF run.pc = "files" THEN <<>> ELSE <<SetImages(run.imgs)>>]

\* updateImages resumed by the awaited useFetch throwing: the function rejects.
updateImagesReject(run, idx) ==
    [run  |-> [run EXCEPT !.pc = "failed", !.imgs = <<>>, !.recent = <<>>],
     send |-> {},
     sets |-> <<>>]

\* One step of run idx, with what it sends and sets, taken on the UI thread.
\* got and writes log the awaits that returned and the slots the run has set.
RunStep(idx, m, c, answered) ==
    /\ runs' = [runs EXCEPT ![idx] =
                    [c.run EXCEPT !.got = IF answered THEN Append(@, m.path) ELSE @,
                                  !.writes = @ \o SlotsOf(c.sets)]]
    /\ net' = (net \ {m}) \cup c.send
    /\ images' = Assigned(c.sets, "images", images)
    /\ stats' = Assigned(c.sets, "stats", stats)
    /\ recent' = Assigned(c.sets, "recent", recent)

UpdateImagesResponse(m) ==
    /\ m \in net
    /\ m.owner = "run" /\ m.kind = "resp"
    /\ RunStep(m.idx, m, updateImagesResume(runs[m.idx], m.idx, m), TRUE)
    /\ UNCHANGED <<mounted, deletes, serverFiles, page, rowsPerPage>>
    /\ UNCHANGED renderVars

UpdateImagesThrow(m) ==
    /\ m \in net
    /\ m.owner = "run"
    /\ RunStep(m.idx, m, updateImagesReject(runs[m.idx], m.idx), FALSE)
    /\ UNCHANGED <<mounted, deletes, serverFiles, page, rowsPerPage>>
    /\ UNCHANGED renderVars

\* useEffect(() => { updateImages(); }, []): lines 121-123.
Mount ==
    /\ ~mounted
    /\ mounted' = TRUE
    /\ LET c == updateImagesCall(Len(runs) + 1)
       IN  /\ runs' = Append(runs, c.run)
           /\ net' = net \cup c.send
    /\ UNCHANGED <<deletes, serverFiles>>
    /\ UNCHANGED uiVars
    /\ UNCHANGED renderVars

----------------------------------------------------------------------------
(* handleDelete: lines 116-119, 210 *)

\* JavaScript truthiness of res.error (<<>> is undefined, <<s>> the string s).
Truthy(e) == e # <<>> /\ e[1] # ""

RefreshAfterDelete_always(res) == TRUE

RefreshAfterDelete_onError(res) == Truthy(res.error)

\* if (!res.error) updateImages();
RefreshAfterDelete(res) == ~Truthy(res.error)

\* The Delete button of a displayed row is clicked.
handleDelete(image) ==
    /\ mounted
    /\ Len(deletes) < MaxDeletes
    /\ image \in Elems(VisibleRows(images, page, rowsPerPage))
    /\ deletes' = Append(deletes, [id |-> image, pc |-> "await", error |-> <<>>])
    /\ net' = net \cup {useFetch("del", Len(deletes) + 1, "DELETE", FilesPath, image)}
    /\ UNCHANGED <<mounted, runs, serverFiles>>
    /\ UNCHANGED uiVars
    /\ UNCHANGED renderVars

HandleDeleteResponse(m) ==
    /\ m \in net
    /\ m.owner = "del" /\ m.kind = "resp"
    /\ deletes' = [deletes EXCEPT ![m.idx].pc = "done", ![m.idx].error = m.error]
    /\ IF RefreshAfterDelete(m)
       THEN LET c == updateImagesCall(Len(runs) + 1)
            IN  /\ runs' = Append(runs, c.run)
                /\ net' = (net \ {m}) \cup c.send
       ELSE /\ runs' = runs
            /\ net' = net \ {m}
    /\ UNCHANGED <<mounted, serverFiles>>
    /\ UNCHANGED uiVars
    /\ UNCHANGED renderVars

\* The awaited useFetch throws: handleDelete rejects.
HandleDeleteThrow(m) ==
    /\ m \in net
    /\ m.owner = "del"
    /\ deletes' = [deletes EXCEPT ![m.idx].pc = "failed"]
    /\ net' = net \ {m}
    /\ UNCHANGED <<mounted, runs, serverFiles>>
    /\ UNCHANGED uiVars
    /\ UNCHANGED renderVars

----------------------------------------------------------------------------
(* The component on the event loop *)

\* The files on the server when the page is opened.
InitialFiles == <<1, 2>>

\* No call of bytesToRead and no render of the Views text is modelled.
NoRender == /\ bytes = [kind |-> "NaN", int |-> <<>>, frac |-> <<>>]
            /\ formatted = <<>>
            /\ viewsText = <<>>

Init ==
    /\ mounted = FALSE
    /\ images = <<>>
    /\ recent = <<>>
    /\ page = 0
    /\ stats = <<>>
    /\ rowsPerPage = 10
    /\ runs = <<>>
    /\ deletes = <<>>
    /\ net = {}
    /\ serverFiles = InitialFiles
    /\ NoRender

Next ==
    \/ Mount
    \/ \E p \in 0..MaxPageAsync : handleChangePage(p)
    \/ \E ev \in RowsPerPageEvents : handleChangeRowsPerPage(ev)
    \/ \E image \in Elems(images) : handleDelete(image)
    \/ \E m \in net : ServerHandle(m)
    \/ \E m \in net : UpdateImagesResponse(m)
    \/ \E m \in net : UpdateImagesThrow(m)
    \/ \E m \in net : HandleDeleteResponse(m)
    \/ \E m \in net : HandleDeleteThrow(m)

Spec == Init /\ [][Next]_vars

----------------------------------------------------------------------------
(* Properties of Spec *)

MessagesOf(r) == {m \in net : m.owner = "run" /\ m.idx = r}

IsPrefix(a, b) == Len(a) <= Len(b) /\ \A i \in DOMAIN a : a[i] = b[i]

\* The handleDelete invocations whose DELETE response arrived with no error.
DeletedOk == {d \in DOMAIN deletes : deletes[d].pc = "done" /\ deletes[d].error = <<>>}

\* The handleDelete invocations whose DELETE response arrived with an error.
DeleteRefused == {d \in DOMAIN deletes : deletes[d].pc = "done" /\ deletes[d].error # <<>>}

\* C1: updateImages has been started once by the mount effect and once more for
\* each DELETE response without an error, and never otherwise: the number of
\* invocations is 0 before the mount effect and 1 + (error-free DELETE
\* responses received) from then on.
C1_RefreshCount ==
    Len(runs) = (IF mounted THEN 1 ELSE 0) + Cardinality(DeletedOk)

\* An execution in which a delete refreshed, another was refused, and the page
\* and the page size were changed.
C1_Witness ==
    /\ Len(runs) = 2
    /\ DeletedOk # {} /\ DeleteRefused # {}
    /\ page = 1 /\ rowsPerPage = 25

\* C2: the step in which handleDelete receives a DELETE response that reports
\* an error starts no refresh and leaves images, recent, stats, page and
\* rowsPerPage, hence the displayed rows, unchanged.
C2_ErrorResponseIsNoOp ==
    [][\A d \in DOMAIN deletes :
          (/\ deletes[d].pc = "await"
           /\ deletes'[d].pc = "done"
           /\ deletes'[d].error # <<>>)
          => /\ runs' = runs
             /\ UNCHANGED <<images, recent, stats, page, rowsPerPage>>
             /\ VisibleRows(images', page', rowsPerPage')
                    = VisibleRows(images, page, rowsPerPage)]_vars

\* A refused delete, received while rows are displayed.
C2_Witness ==
    /\ DeleteRefused # {}
    /\ VisibleRows(images, page, rowsPerPage) # <<>>

\* C8: a run of updateImages has at most one read request outstanding, the one
\* outstanding is the next of /api/user/files, /api/user/recent?filter=media,
\* /api/stats after those already answered, and a run that has set a slot has
\* all three answers and has set images, stats, recent in that order.
C8_SequentialThenCommit ==
    \A r \in DOMAIN runs :
        /\ Cardinality(MessagesOf(r)) <= 1
        /\ IsPrefix(runs[r].got, ReadPaths)
        /\ \A m \in MessagesOf(r) :
              /\ Len(runs[r].got) < Len(ReadPaths)
              /\ m.path = ReadPaths[Len(runs[r].got) + 1]
              /\ m.method = "GET"
        /\ runs[r].writes # <<>> =>
              /\ runs[r].got = ReadPaths
              /\ runs[r].writes = <<"images", "stats", "recent">>

\* A refresh that has committed while a later one awaits its second response.
C8_Witness ==
    \E r, q \in DOMAIN runs :
        /\ runs[r].pc = "done" /\ runs[r].writes # <<>>
        /\ runs[q].pc = "recent" /\ MessagesOf(q) # {}

\* C9: the step in which a read request of a refresh fails leaves images,
\* recent and stats unchanged; the refresh has set no slot then, and from then
\* on it sets none, issues no request and has none in flight.
C9_FailedRefreshWritesNothing ==
    [][\A r \in DOMAIN runs :
          /\ (runs[r].pc # "failed" /\ runs'[r].pc = "failed")
                => /\ UNCHANGED <<images, recent, stats>>
                   /\ runs'[r].writes = <<>>
                   /\ runs'[r].got = runs[r].got
                   /\ Len(runs[r].got) < Len(ReadPaths)
          /\ runs[r].pc = "failed" => runs'[r] = runs[r]
          /\ runs'[r].pc = "failed" => \A m \in net' : ~(m.owner = "run" /\ m.idx = r)]_vars

\* A refresh that failed after its file list had arrived and differed from
\* the displayed one.
C9_Witness ==
    \E r \in DOMAIN runs :
        /\ runs[r].pc = "failed"
        /\ runs[r].got = <<FilesPath, RecentPath>>
        /\ images # serverFiles

\* Every issued delete and every started refresh has completed, none failed.
Quiescent ==
    /\ mounted
    /\ net = {}
    /\ \A r \in DOMAIN runs : runs[r].pc = "done"
    /\ \A d \in DOMAIN deletes : deletes[d].pc = "done"

\* C10: once every delete and refresh has completed without a failure, the
\* displayed file list is the server's file list.
C10_DisplayedIsCurrent == Quiescent => images = serverFiles

----------------------------------------------------------------------------
(* SpecPaging: the pagination handlers, once a refresh has loaded a file list *)

\* A file list of n records, newest first.
FileList(n) == [i \in 1..n |-> n + 1 - i]

\* The component after the mount refresh completed against a server holding
\* `files`.
Loaded(files) ==
    /\ mounted = TRUE
    /\ serverFiles = files
    /\ images = files
    /\ recent = MediaOnly(files)
    /\ stats = <<ServerStats(files)>>
    /\ page = 0
    /\ rowsPerPage = 10
    /\ runs = <<[pc |-> "done", imgs |-> <<>>, recent |-> <<>>, got |-> ReadPaths,
                 writes |-> <<"images", "stats", "recent">>]>>
    /\ deletes = <<>>
    /\ net = {}

InitPaging ==
    /\ \E n \in 0..MaxLen : Loaded(FileList(n))
    /\ NoRender

NextPaging ==
    \/ \E p \in 0..MaxPage : handleChangePage(p)
    \/ \E ev \in RowsPerPageEvents : handleChangeRowsPerPage(ev)

SpecPaging == InitPaging /\ [][NextPaging]_vars

\* C3: the rows of the file table are the elements of images at positions
\* page*rowsPerPage up to but excluding min(page*rowsPerPage + rowsPerPage,
\* length), in list order, and none when page*rowsPerPage is at or past the end.
C3_VisibleWindow ==
    LET rows == VisibleRows(images, page, rowsPerPage)
        lo   == page * rowsPerPage
        hi   == Min(lo + rowsPerPage, Len(images))
    IN  /\ rowsPerPage \in rowsPerPageOptions
        /\ DOMAIN rows = 1..Len(rows)
        /\ Len(rows) = Max(hi - lo, 0)
        /\ \A i \in 1..Len(rows) : rows[i] = images[lo + i]
        /\ lo >= Len(images) => rows = <<>>

\* 23 files, 10 rows per page, page 2: the three rows at positions 20..22.
C3_Witness ==
    /\ Len(images) = 23 /\ rowsPerPage = 10 /\ page = 2
    /\ VisibleRows(images, page, rowsPerPage) = <<images[21], images[22], images[23]>>

\* The page size an event of the rows-per-page select stands for.
SizeOf(ev) ==
    CHOOSE n \in rowsPerPageOptions : ev \in {NumberValue(n), StringValue(Decimal(n))}

\* C4: a step of handleChangeRowsPerPage with value v ends with page = 0 and
\* rowsPerPage = v, and leaves images, recent and stats unchanged.
C4_RowsPerPageResetsPage ==
    [][\A ev \in RowsPerPageEvents :
          handleChangeRowsPerPage(ev)
          => /\ page' = 0
             /\ rowsPerPage' = SizeOf(ev)
             /\ UNCHANGED <<images, recent, stats>>]_vars

\* The page size has been changed to 25 over a list longer than one page.
C4_Witness ==
    /\ rowsPerPage = 25 /\ page = 0 /\ Len(images) > 25

----------------------------------------------------------------------------
(* bytesToRead: lines 28-40 *)

\* A JavaScript number: NaN, Infinity, or a finite value >= 0 written in base
\* 1024: int[i] is the digit of 1024^(i-1), frac[j] the digit of 1024^(-j).
\* Dividing such a double by 1024 is exact.
NaN == [kind |-> "NaN", int |-> <<>>, frac |-> <<>>]
Infinity == [kind |-> "Infinity", int |-> <<>>, frac |-> <<>>]
Finite(int, frac) == [kind |-> "finite", int |-> int, frac |-> frac]

isNaN(x) == x.kind = "NaN"

IntDigit(x, i) == IF i \in DOMAIN x.int THEN x.int[i] ELSE 0

\* bytes >= 1024
GreaterThan1024_orEqual(x) ==
    \/ \E i \in DOMAIN x.int : i >= 3 /\ x.int[i] # 0
    \/ IntDigit(x, 2) >= 1

\* bytes > 1024
GreaterThan1024(x) ==
    \/ \E i \in DOMAIN x.int : i >= 3 /\ x.int[i] # 0
    \/ IntDigit(x, 2) > 1
    \/ /\ IntDigit(x, 2) = 1
       /\ \/ IntDigit(x, 1) > 0
          \/ \E j \in DOMAIN x.frac : x.frac[j] # 0

\* bytes /= 1024
DivideBy1024(x) ==
    Finite(IF x.int = <<>> THEN <<>> ELSE Tail(x.int), <<IntDigit(x, 1)>> \o x.frac)

\* The carry out of fraction digit i when the fraction is multiplied by 10
\* and one half is added.
RECURSIVE TenthsCarry(_, _)
TenthsCarry(frac, i) ==
    IF i > Len(frac) THEN 0
    ELSE (10 * frac[i] + TenthsCarry(frac, i + 1) + (IF i = 1 THEN 512 ELSE 0)) \div 1024

\* x.toFixed(1) for 0 <= x <= 1024, in tenths: the integer n with n/10 nearest
\* to x, the larger one of two.
toFixed1(x) ==
    10 * (IntDigit(x, 1) + 1024 * IntDigit(x, 2)) + TenthsCarry(x.frac, 1)

units == <<"B", "kB", "MB", "GB", "TB", "PB">>

\* units[num]: undefined past the end of the array.
UnitAt(num) == IF num + 1 \in DOMAIN units THEN units[num + 1] ELSE "undefined"

\* The text `${tenths div 10}.${tenths mod 10} ${unit}`.
Text(tenths, unit) == [tenths |-> tenths, unit |-> unit]

RECURSIVE DivideLoop(_, _)
DivideLoop(x, num) ==
    IF GreaterThan1024(x) THEN DivideLoop(DivideBy1024(x), num + 1)
    ELSE Text(toFixed1(x), UnitAt(num))

bytesToRead(x) ==
    IF isNaN(x) THEN Text(0, "B")
    ELSE IF x = Infinity THEN Text(0, "B")
    ELSE DivideLoop(x, 0)

\* Digit values drawn for the digit of 1024.
DigitSamples == {0, 1, 2, 512, 1022, 1023}

Zeros(n) == [i \in 1..n |-> 0]

\* The digits of a double span at most 53 bits: five base-1024 digits from the
\* lowest non-zero one to the highest.
IsDouble(int) ==
    \A i, j \in DOMAIN int : (int[i] # 0 /\ int[j] # 0) => j - i <= 4

\* Byte counts: every integer below 1024, over a sampled digit of 1024, alone
\* or under a leading digit 1 or 2 at any higher position; NaN and Infinity.
ByteCounts ==
    {NaN, Infinity}
        \cup {Finite(<<d0, d1>>, <<>>) : d0 \in 0..1023, d1 \in DigitSamples}
        \cup {x \in {Finite(<<low[1], low[2]>> \o Zeros(e - 3) \o <<t>>, <<>>) :
                        low \in (0..1023) \X DigitSamples, e \in 3..MaxDigits, t \in {1, 2}} :
                IsDouble(x.int)}

CallBytesToRead ==
    /\ formatted = <<>>
    /\ formatted' = <<bytesToRead(bytes)>>
    /\ UNCHANGED <<bytes, viewsText>>
    /\ UNCHANGED uiVars
    /\ UNCHANGED asyncVars

InitFormat ==
    /\ mounted = FALSE /\ images = <<>> /\ recent = <<>> /\ page = 0 /\ stats = <<>>
    /\ rowsPerPage = 10 /\ runs = <<>> /\ deletes = <<>> /\ net = {}
    /\ serverFiles = InitialFiles
    /\ bytes \in ByteCounts
    /\ formatted = <<>>
    /\ viewsText = <<>>

NextFormat == CallBytesToRead

SpecFormat == InitFormat /\ [][NextFormat]_vars

\* The value of a byte count below 1024^3.
SmallValue(x) == IntDigit(x, 1) + 1024 * IntDigit(x, 2) + 1048576 * IntDigit(x, 3)

IsSmall(x) == x.kind = "finite" /\ Len(x.int) <= 3 /\ x.frac = <<>>

\* C5: the unit of every result of bytesToRead is one of B, kB, MB, GB, TB, PB.
C5_UnitInList ==
    formatted # <<>> => formatted[1].unit \in {"B", "kB", "MB", "GB", "TB", "PB"}

\* C6: for an integer b with 0 <= b <= 1024, bytesToRead(b) is "<b>.0 B"; for
\* 1024 < b <= 1024^2 it is b/1024 rounded to one decimal place, then " kB".
C6_BytesAndKilobytes ==
    (formatted # <<>> /\ IsSmall(bytes)) =>
        LET b == SmallValue(bytes)
            t == formatted[1].tenths
        IN  /\ b <= 1024 => formatted[1] = Text(10 * b, "B")
            /\ (1024 < b /\ b <= 1048576) =>
                  /\ formatted[1].unit = "kB"
                  /\ 1024 * t - 10 * b \in -511..512

\* 1024 is "1024.0 B", 1280 is "1.3 kB", 1024^2 is "1024.0 kB".
C6_Witness ==
    \/ bytes = Finite(<<0, 1>>, <<>>) /\ formatted = <<Text(10240, "B")>>
    \/ bytes = Finite(<<256, 1>>, <<>>) /\ formatted = <<Text(13, "kB")>>
    \/ bytes = Finite(<<0, 0, 1>>, <<>>) /\ formatted = <<Text(10240, "kB")>>

----------------------------------------------------------------------------
(* The Views text: line 165 *)

RECURSIVE GCD(_, _)
GCD(a, b) == IF b = 0 THEN a ELSE GCD(b, a % b)

\* a / b for integers a, b >= 0, as a number in lowest terms.
Divide(a, b) ==
    IF b = 0 THEN (IF a = 0 THEN [kind |-> "NaN", num |-> 0, den |-> 0]
                   ELSE [kind |-> "Infinity", num |-> 0, den |-> 0])
    ELSE [kind |-> "finite", num |-> a \div GCD(a, b), den |-> b \div GCD(a, b)]

\* The text a number is rendered as; '0' is the text of 0.
ZeroText == [kind |-> "finite", num |-> 0, den |-> 1]

\* `${views_count} (${isNaN(views_count / count) ? '0' : views_count / count})`,
\* or the Skeleton while stats is null.
ViewsText(st) ==
    IF st = <<>> THEN [skeleton |-> TRUE, views |-> 0, ratio |-> ZeroText]
    ELSE LET q == Divide(st[1].views_count, st[1].count)
         IN  [skeleton |-> FALSE, views |-> st[1].views_count,
              ratio |-> IF isNaN(q) THEN ZeroText ELSE q]

RenderViews ==
    /\ viewsText = <<>>
    /\ viewsText' = <<ViewsText(stats)>>
    /\ UNCHANGED <<bytes, formatted>>
    /\ UNCHANGED uiVars
    /\ UNCHANGED asyncVars

InitViews ==
    /\ mounted = FALSE /\ images = <<>> /\ recent = <<>> /\ page = 0
    /\ rowsPerPage = 10 /\ runs = <<>> /\ deletes = <<>> /\ net = {}
    /\ serverFiles = InitialFiles
    /\ stats \in {<<>>} \cup {<<[count |-> c, views_count |-> v]>> :
                                 c \in 0..MaxCount, v \in 0..MaxViews}
    /\ NoRender

NextViews == RenderViews

SpecViews == InitViews /\ [][NextViews]_vars

\* C7: with stats.count = 0 the Views text is "<views_count> (0)".
C7_ZeroCountRendersZero ==
    (viewsText # <<>> /\ stats # <<>> /\ stats[1].count = 0) =>
        viewsText[1] = [skeleton |-> FALSE, views |-> stats[1].views_count,
                        ratio |-> ZeroText]

====
